---------------------------- MODULE Spec2Model ----------------------------
(***************************************************************************)
(* A model of service-proxy: the YAML rule store (app/config_manager.py), *)
(* the nginx reconcile pipeline (app/nginx_manager.py) and the backend     *)
(* health poller (app/health_check.py).                                    *)
(*                                                                         *)
(* Strings the code inspects character by character (rule paths, rule ids) *)
(* are sequences of one-character strings, so that startswith, the test    *)
(* for a blank, isdigit, int() and str() are computed and not assumed.     *)
(***************************************************************************)
EXTENDS Integers, Sequences, FiniteSets, TLC

VARIABLES
    now,       \* the wall clock, in the seconds datetime.now() is formatted to
    store,     \* config/proxy_config.yaml: the "rules" list, a sequence of rule dicts
    backups,   \* config/backups: snapshot name (its timestamp) -> copied rules list
    res,       \* what the last rule-store call did: [op, kind, id]
    nOk,       \* history: number of successful add/update/delete calls so far
    hist,      \* history: the rules lists as they were before the latest successful mutations
    nRestore,  \* history: number of restore_from_backup calls so far
    is_docker, \* NginxManager.is_docker, decided once at construction
    live,      \* nginx/proxy_rules.conf: <<>> when absent, <<content>> otherwise
    slot,      \* nginx/proxy_rules.conf.backup, likewise
    nres,      \* what the last update_and_reload call did and returned
    health_status, \* HealthChecker.health_status: rule id -> HealthCheckResult
    inflight,  \* per caller of check_all_rules: <<>> or <<the probes it awaits>>
    running,   \* HealthChecker._running
    loops,     \* the _check_loop tasks created so far; the last is HealthChecker._task
    requests,  \* the route handlers the event loop has yet to finish, with their locals
    monitor    \* scripts/monitor_ntfy.py: its state dict and what its last check did

storeVars == <<store, backups, res>>
histVars == <<nOk, hist, nRestore>>
nginxVars == <<is_docker, live, slot, nres, requests, monitor>>
checkVars == <<health_status, inflight>>
loopVars == <<running, loops>>
healthVars == <<health_status, inflight, running, loops>>
vars == <<now, store, backups, res, nOk, hist, nRestore,
          is_docker, live, slot, nres, health_status, inflight,
          running, loops, requests, monitor>>

None == "None"
\* None where a string (a sequence of characters) is expected.
NoneS == <<None>>

-----------------------------------------------------------------------------
(* Bounds of the model.                                                    *)

\* The clock stops ticking at MaxTime.
MaxTime == 2
\* add_rule is not called when it would assign an id above MaxId.
MaxId == 3
\* add_rule is not called on a store that already holds MaxRules rules.
MaxRules == 2

-----------------------------------------------------------------------------
(* Program constants.                                                      *)

\* _backup_config keeps the 10 newest snapshots.
KeepBackups == 10
\* HealthChecker(timeout=5): the seconds wait_for gives a probe.
ProbeTimeout == 5
\* ProxyRule.target_port: Field(..., ge=1, le=65535)
MinPort == 1
MaxPort == 65535

-----------------------------------------------------------------------------
(* Strings as character sequences.                                         *)

DigitChars == <<"0", "1", "2", "3", "4", "5", "6", "7", "8", "9">>

IsDigitChar(c) == \E d \in 1..10 : DigitChars[d] = c

DigitValue(c) == (CHOOSE d \in 1..10 : DigitChars[d] = c) - 1

\* str.isdigit(): non-empty and every character a digit.
isdigit(s) == Len(s) > 0 /\ \A i \in 1..Len(s) : IsDigitChar(s[i])

\* int(s) for a string of decimal digits.
RECURSIVE int(_)
int(s) ==
    IF Len(s) = 0 THEN 0
    ELSE 10 * int(SubSeq(s, 1, Len(s) - 1)) + DigitValue(s[Len(s)])

\* str(n) for n >= 0.
RECURSIVE str(_)
str(n) ==
    IF n < 10 THEN <<DigitChars[n + 1]>>
    ELSE Append(str(n \div 10), DigitChars[(n % 10) + 1])

\* s.startswith('/')
StartsWithSlash(s) == Len(s) > 0 /\ s[1] = "/"

\* ' ' in s
HasBlank(s) == \E i \in 1..Len(s) : s[i] = " "

Max(S, default) == IF S = {} THEN default ELSE CHOOSE m \in S : \A x \in S : x <= m

-----------------------------------------------------------------------------
(* app/models.py                                                           *)

\* ProxyRule.validate_path
validate_path(v) == StartsWithSlash(v) /\ ~HasBlank(v)

\* ProxyRule.validate_health_check_path
validate_health_check_path(v) == v = NoneS \/ StartsWithSlash(v)

\* ProxyRule(**rule_data) constructs without a validation error.
ProxyRuleOK(r) ==
    /\ validate_path(r.path)
    /\ r.target_port >= MinPort /\ r.target_port <= MaxPort
    /\ validate_health_check_path(r.health_check_path)

-----------------------------------------------------------------------------
(* app/config_manager.py                                                   *)

EmptyBackups == [n \in {} |-> <<>>]

\* A plausible slip: no snapshot is ever unlinked.
PruneNothing(b) == b

\* The snapshots left by the pruning of _backup_config: sorted by name, all
\* but the last KeepBackups are unlinked when there are more than KeepBackups.
PruneBackups(b) ==
    IF Cardinality(DOMAIN b) > KeepBackups
    THEN LET kept == {n \in DOMAIN b :
                        Cardinality({m \in DOMAIN b : m > n}) < KeepBackups}
         IN [n \in kept |-> b[n]]
    ELSE b

\* A plausible slip: the call takes no snapshot.
backup_skipped == backups

\* _backup_config: the backup directory after the call. The snapshot is named
\* by the clock's second; copy2 overwrites a snapshot of the same name.
backup_config ==
    PruneBackups([n \in DOMAIN backups \cup {now} |->
                     IF n = now THEN store ELSE backups[n]])

\* A plausible slip: the id taken from the number of rules instead of the
\* largest numeric id.
NextIdByCount(rules) == str(Len(rules) + 1)

\* add_rule: the id given to a rule that carries none.
NextId(rules) ==
    LET existing_ids == {int(rules[i].id) :
                           i \in {j \in 1..Len(rules) : isdigit(rules[j].id)}}
    IN str(Max(existing_ids, 0) + 1)

\* validate_config on a rules list: every record is a ProxyRule and no path
\* occurs twice.
validate_config(rules) ==
    /\ \A i \in 1..Len(rules) : ProxyRuleOK(rules[i])
    /\ \A i, j \in 1..Len(rules) : rules[i].path = rules[j].path => i = j

Result(op, kind, id, name) == [op |-> op, kind |-> kind, id |-> id, name |-> name]

\* add_rule(rule): rule is a ProxyRule, with or without an id.
add_rule(rule) ==
    LET exists == \E i \in 1..Len(store) : store[i].path = rule.path
        id == IF rule.id = NoneS THEN NextId(store) ELSE rule.id
        rule_dict == [id |-> id,
                      path |-> rule.path,
                      target_port |-> rule.target_port,
                      enabled |-> rule.enabled,
                      health_check_path |-> rule.health_check_path,
                      created_at |-> now,
                      updated_at |-> now]
    IN /\ backups' = backup_config
       /\ IF exists
          THEN /\ store' = store
               /\ res' = Result("add", "DuplicatePath", NoneS, -1)
          ELSE /\ store' = Append(store, rule_dict)
               /\ res' = Result("add", "ok", id, -1)

\* The keys of updates whose value is None (a None is written here for the
\* string fields only).
NoneKeys(updates) ==
    {k \in DOMAIN updates \cap {"path", "health_check_path"} :
        updates[k] = NoneS}

\* The rule dict after "for key, value in updates.items(): if value is not
\* None: rule[key] = value" and the refresh of updated_at.
ApplyUpdates(rule, updates) ==
    [k \in DOMAIN rule |->
        IF k = "updated_at" THEN now
        ELSE IF k \in DOMAIN updates \ NoneKeys(updates) THEN updates[k]
        ELSE rule[k]]

\* The outcome of an update_rule call, with the updates it was given.
UpdateResult(kind, rule_id, updates) ==
    [op |-> "update", kind |-> kind, id |-> rule_id, name |-> -1,
     updates |-> updates]

\* update_rule(rule_id, updates): updates maps some field names to new values.
update_rule(rule_id, updates) ==
    LET found == {i \in 1..Len(store) : store[i].id = rule_id}
    IN /\ backups' = backup_config
       /\ IF found = {}
          THEN /\ store' = store
               /\ res' = UpdateResult("NotFound", rule_id, updates)
          ELSE LET idx == CHOOSE i \in found : \A j \in found : i <= j
                   rule == store[idx]
                   taken == /\ "path" \in DOMAIN updates
                            /\ updates.path # rule.path
                            /\ \E j \in 1..Len(store) :
                                  /\ store[j].id # rule_id
                                  /\ store[j].path = updates.path
                   new == ApplyUpdates(rule, updates)
               IN IF taken
                  THEN /\ store' = store
                       /\ res' = UpdateResult("DuplicatePath", rule_id, updates)
                  ELSE /\ store' = [store EXCEPT ![idx] = new]
                       \* "return ProxyRule(**rules[idx])" runs after the write
                       /\ res' = UpdateResult(IF ProxyRuleOK(new) THEN "ok"
                                               ELSE "ValidationError",
                                               rule_id, updates)

\* delete_rule(rule_id)
delete_rule(rule_id) ==
    LET rules == SelectSeq(store, LAMBDA r : r.id # rule_id)
    IN /\ backups' = backup_config
       /\ IF Len(rules) = Len(store)
          THEN /\ store' = store
               /\ res' = Result("delete", "NotFound", rule_id, -1)
          ELSE /\ store' = rules
               /\ res' = Result("delete", "ok", rule_id, -1)

\* restore_from_backup(backup_filename)
restore_from_backup(name) ==
    IF name \notin DOMAIN backups
    THEN /\ UNCHANGED <<store, backups>>
         /\ res' = Result("restore", "NotFound", NoneS, name)
    ELSE LET after == backup_config
         IN /\ backups' = after
            /\ IF name \notin DOMAIN after
               \* shutil.copy2 of the file _backup_config has just unlinked
               THEN /\ store' = store
                    /\ res' = Result("restore", "NotFound", NoneS, name)
               ELSE /\ store' = after[name]
                    /\ res' = Result("restore",
                                     IF validate_config(after[name]) THEN "ok"
                                     ELSE "InvalidState",
                                     NoneS, name)

\* get_enabled_rules
get_enabled_rules(rules) == SelectSeq(rules, LAMBDA r : r.enabled)

-----------------------------------------------------------------------------
(* app/nginx_manager.py                                                    *)

\* What subprocess.run of the reload command can do: exit with 0, exit with
\* another code, exceed its timeout, fail to find the executable, or raise
\* any other exception.
ReloadOutcomes == {"exit0", "exit1", "timeout", "not_found", "error"}

\* What writing the configuration file can do: succeed, fail to open the file
\* (it keeps its content), or fail after open(..., 'w') has truncated it.
WriteOutcomes == {"ok", "PermissionError", "IOError"}

\* The file left by a write that failed after the truncation.
Truncated == [locations |-> <<>>, generated_at |-> -1]

Response(success, message) == [success |-> success, message |-> message]

\* reload_nginx, for each outcome of the reload command.
reload_nginx(outcome) ==
    IF is_docker
    THEN CASE outcome = "exit0" -> Response(TRUE, "reload_ok")
           [] outcome = "exit1" -> Response(FALSE, "reload_failed")
           [] outcome = "not_found" -> Response(TRUE, "updated_via_volume")
           [] outcome = "timeout" -> Response(FALSE, "reload_timeout")
           [] OTHER -> Response(FALSE, "reload_exception")
    ELSE CASE outcome = "exit0" -> Response(TRUE, "reload_ok")
           [] outcome = "exit1" -> Response(FALSE, "reload_failed")
           [] outcome = "timeout" -> Response(FALSE, "reload_timeout")
           [] OTHER -> Response(FALSE, "reload_exception")

\* generate_config: what the template is rendered from, the enabled rules
\* and the timestamp.
generate_config ==
    LET rules == get_enabled_rules(store)
    IN [locations |-> [i \in 1..Len(rules) |->
                          <<rules[i].path, rules[i].target_port>>],
        generated_at |-> now]

\* A plausible slip: rendering goes on without the template and whatever
\* the records.
GenerateNeverFails(template_exists) == FALSE

\* generate_config raises: get_all_rules builds a ProxyRule of every record,
\* and _load_template needs the template file.
GenerateFails(template_exists) ==
    \/ ~template_exists
    \/ \E i \in 1..Len(store) : ~ProxyRuleOK(store[i])

\* How generate_config raises: _load_template on a missing template, or
\* ProxyRule(**rule_data) on a record of the store.
GenerateError(template_exists) ==
    IF \E i \in 1..Len(store) : ~ProxyRuleOK(store[i]) THEN "ValidationError"
    ELSE "FileNotFoundError"

NoCall ==
    [calls |-> 0, success |-> FALSE, message |-> "none", raised |-> "none",
     rolled_back |-> FALSE, stages |-> <<>>, reload |-> "none",
     rendered |-> <<>>, before |-> <<>>, template |-> TRUE, write |-> "none",
     rollbacks |-> 0]

\* The response of the outer except clause.
Failed == Response(FALSE, "update_failed")

\* How a call ends: with a response returned, or with an exception raised to
\* the caller (raised is "none" when the call returns).
Returned(resp) == [resp |-> resp, raised |-> "none"]

\* A plausible slip: the exception leaves update_and_reload.
ExceptNothing(exc) == [resp |-> Failed, raised |-> exc]

\* "except Exception as e" around the body of update_and_reload: whatever
\* the exception, the response Failed is returned.
Except(exc) == Returned(Failed)

\* The record of the update_and_reload calls: how many there were and, of the
\* last one, how it ended (the response returned, whether the rollback note
\* was appended to its message, the exception raised to the caller if any),
\* the stages run, the outcome of the reload command, and, for the
\* properties, the text rendered (<<>> when rendering raised), the live file
\* as it was before the call, whether the template file existed, what the
\* write did ("none" when the call did not come to it) and how many calls
\* in a row, this one included, have restored the backup.
Outcome(end, rolled, stages, reload, rendered, env) ==
    [calls |-> nres.calls + 1, success |-> end.resp.success,
     message |-> end.resp.message, raised |-> end.raised,
     rolled_back |-> rolled, stages |-> stages, reload |-> reload,
     rendered |-> rendered, before |-> live, template |-> env.template,
     write |-> IF \E i \in 1..Len(stages) : stages[i] = "write"
               THEN env.write ELSE "none",
     rollbacks |-> IF rolled THEN nres.rollbacks + 1 ELSE 0]

\* A plausible slip: the backup file is left where it is and the text just
\* written stays live.
RestoredNothing(backup, written) == written

\* The live file after "shutil.copy2(backup_path, self.output_path)".
Restored(backup, written) == backup

\* A plausible slip: write_config reports a failed write with its return
\* value, which update_and_reload does not look at.
WriteNeverRaises(outcome) == FALSE

\* write_config raises when the file cannot be opened or written: both of
\* its except clauses raise again.
WriteRaises(outcome) == outcome # "ok"

\* update_and_reload. env gives what the environment does at each step:
\* template (the template file exists), backup and restore (the copies
\* succeed), write (a WriteOutcomes) and reload (a ReloadOutcomes).
update_and_reload(env) ==
    IF GenerateFails(env.template)
    THEN /\ nres' = Outcome(Except(GenerateError(env.template)), FALSE,
                            <<"render">>, "none", <<>>, env)
         /\ UNCHANGED <<live, slot>>
    ELSE IF live # <<>> /\ ~env.backup
    THEN /\ nres' = Outcome(Except("OSError"), FALSE, <<"render", "backup">>,
                            "none", <<generate_config>>, env)
         /\ UNCHANGED <<live, slot>>
    ELSE LET cfg == <<generate_config>>
             stages1 == IF live # <<>> THEN <<"render", "backup">>
                        ELSE <<"render">>
             slot1 == IF live # <<>> THEN live ELSE slot
         IN /\ slot' = slot1
            /\ IF WriteRaises(env.write)
               THEN /\ live' = IF env.write = "IOError" THEN <<Truncated>>
                               ELSE live
                    /\ nres' = Outcome(Except(env.write), FALSE,
                                       Append(stages1, "write"), "none", cfg,
                                       env)
               ELSE LET result == reload_nginx(env.reload)
                        stages2 == stages1 \o <<"write", "reload">>
                    IN IF result.success \/ slot1 = <<>>
                       THEN /\ live' = cfg
                            /\ nres' = Outcome(Returned(result), FALSE,
                                               stages2, env.reload, cfg, env)
                       ELSE IF env.restore
                       THEN /\ live' = Restored(slot1, cfg)
                            /\ nres' = Outcome(Returned(result), TRUE,
                                               Append(stages2, "restore"),
                                               env.reload, cfg, env)
                       ELSE /\ live' = cfg
                            /\ nres' = Outcome(Except("OSError"), FALSE,
                                               Append(stages2, "restore"),
                                               env.reload, cfg, env)

-----------------------------------------------------------------------------
(* app/health_check.py                                                     *)

\* The callers of check_all_rules: the polling loop and POST /health/check.
Callers == {"loop", "manual"}

NoResults == [id \in {} |-> <<>>]

\* What one probe can do: connect (taking some milliseconds), time out, be
\* refused, fail with another OSError, connect and fail in wait_closed, raise
\* another Exception, or be cancelled (no HealthCheckResult is returned).
ProbeOutcomes ==
    {"connected", "timeout", "refused", "oserror", "close_failed",
     "exception", "cancelled"}

\* check_single_rule up to its try block: the result as constructed.
NewResult(rule) ==
    [rule_id |-> rule.id, path |-> rule.path, status |-> "unknown",
     response_time_ms |-> -1, error_message |-> "none",
     last_check_time |-> now]

\* A plausible slip: response_time_ms is assigned as soon as the connection
\* is open, before it is closed.
check_single_rule_timed_early(result, outcome, ms) ==
    CASE outcome = "connected" ->
           [result EXCEPT !.status = "healthy", !.response_time_ms = ms]
      [] outcome = "close_failed" ->
           [result EXCEPT !.status = "unhealthy", !.response_time_ms = ms,
                          !.error_message = "failed"]
      [] outcome = "timeout" ->
           [result EXCEPT !.status = "unhealthy", !.error_message = "timeout"]
      [] outcome = "refused" ->
           [result EXCEPT !.status = "unhealthy", !.error_message = "refused"]
      [] outcome = "oserror" ->
           [result EXCEPT !.status = "unhealthy", !.error_message = "failed"]
      [] OTHER ->
           [result EXCEPT !.status = "unhealthy", !.error_message = "error"]

\* A plausible slip: no "except Exception" clause, the result of a probe
\* that met another exception being returned as it was constructed.
check_single_rule_unclassified(result, outcome, ms) ==
    CASE outcome = "connected" ->
           [result EXCEPT !.status = "healthy", !.response_time_ms = ms]
      [] outcome = "timeout" ->
           [result EXCEPT !.status = "unhealthy", !.error_message = "timeout"]
      [] outcome = "refused" ->
           [result EXCEPT !.status = "unhealthy", !.error_message = "refused"]
      [] outcome \in {"oserror", "close_failed"} ->
           [result EXCEPT !.status = "unhealthy", !.error_message = "failed"]
      [] OTHER -> result

\* check_single_rule from its try block on: -1 stands for a
\* response_time_ms of None, "none" for an error_message of None.
check_single_rule(result, outcome, ms) ==
    CASE outcome = "connected" ->
           [result EXCEPT !.status = "healthy", !.response_time_ms = ms]
      [] outcome = "timeout" ->
           [result EXCEPT !.status = "unhealthy", !.error_message = "timeout"]
      [] outcome = "refused" ->
           [result EXCEPT !.status = "unhealthy", !.error_message = "refused"]
      [] outcome \in {"oserror", "close_failed"} ->
           [result EXCEPT !.status = "unhealthy", !.error_message = "failed"]
      [] OTHER ->
           [result EXCEPT !.status = "unhealthy", !.error_message = "error"]

\* health_status after "self.health_status[result.rule_id] = result" for the
\* results in order.
RECURSIVE StoreResults(_, _)
StoreResults(hs, results) ==
    IF results = <<>> THEN hs
    ELSE LET r == Head(results)
             hs1 == [id \in DOMAIN hs \cup {r.rule_id} |->
                        IF id = r.rule_id THEN r ELSE hs[id]]
         IN StoreResults(hs1, Tail(results))

\* check_all_rules up to its await: the enabled rules are read and one probe
\* per rule is started. get_enabled_rules raises on a record that is no
\* ProxyRule, and the call ends there.
check_all_rules_begin(c) ==
    /\ inflight[c] = <<>>
    /\ IF \E i \in 1..Len(store) : ~ProxyRuleOK(store[i])
       THEN UNCHANGED inflight
       ELSE LET rules == get_enabled_rules(store)
            IN inflight' = [inflight EXCEPT
                               ![c] = <<[i \in 1..Len(rules) |->
                                            NewResult(rules[i])]>>]
    /\ UNCHANGED health_status

\* A plausible slip: gather without return_exceptions, so that what one
\* probe raises leaves check_all_rules and no result is stored.
GatheredUnlessRaised(outcomes) ==
    IF \E i \in DOMAIN outcomes : outcomes[i] = "cancelled" THEN {}
    ELSE DOMAIN outcomes

\* The probes whose entry in the list gather returns is a HealthCheckResult:
\* with return_exceptions=True what a probe raises is an entry of the list,
\* which "isinstance(result, HealthCheckResult)" passes over.
Gathered(outcomes) == {i \in DOMAIN outcomes : outcomes[i] # "cancelled"}

\* health_status after the loop over the results of gather.
CycleResults(hs, probes, outcomes, ms) ==
    LET done == Gathered(outcomes)
        results == [k \in 1..Cardinality(done) |->
                       LET i == CHOOSE i \in done :
                                   Cardinality({j \in done : j < i}) = k - 1
                       IN check_single_rule(probes[i], outcomes[i], ms[i])]
    IN StoreResults(hs, results)

\* check_all_rules after gather: outcomes[i] and ms[i] are what probe i did.
check_all_rules_end(c, outcomes, ms) ==
    /\ inflight[c] # <<>>
    /\ health_status' = CycleResults(health_status, inflight[c][1], outcomes, ms)
    /\ inflight' = [inflight EXCEPT ![c] = <<>>]

\* A plausible slip: the probes run one after the other, probe i waiting for
\* the probes before it.
ProbeDeadlineSequential(i, started) == started + i * ProbeTimeout

\* The second by which probe i of a cycle begun at started is over:
\* gather starts every probe at once and wait_for bounds each by the timeout.
ProbeDeadline(i, started) == started + ProbeTimeout

\* Probes that time out are over at their deadline and not before.
TimingAllows(probes, outcomes) ==
    \A i \in 1..Len(probes) :
        outcomes[i] = "timeout" =>
            now >= ProbeDeadline(i, probes[i].last_check_time)

\* Every probe of the cycle of caller c is over: gather returns.
CycleDue(c) ==
    /\ inflight[c] # <<>>
    /\ \A i \in 1..Len(inflight[c][1]) :
          now >= ProbeDeadline(i, inflight[c][1][i].last_check_time)

\* The ghost counter of the cycles a task has begun counts modulo CycleMod.
CycleMod == 2

\* A _check_loop task: where it stands (created: not yet run; checking: in
\* "await self.check_all_rules()"; sleeping: in "await asyncio.sleep(...)";
\* cancelled; finished) and, for the properties, the number of cycles it has
\* begun, modulo CycleMod, and whether the last of them raised.
NewTask == [pc |-> "created", cycle |-> 0, raised |-> FALSE]

Alive(task) == task.pc \notin {"cancelled", "finished"}

\* A plausible slip: start without the test of _running.
start_unguarded ==
    /\ running' = TRUE
    /\ loops' = Append(loops, NewTask)
    /\ UNCHANGED checkVars

\* start
start ==
    /\ IF ~running
       THEN /\ running' = TRUE
            /\ loops' = Append(loops, NewTask)
       ELSE UNCHANGED loopVars
    /\ UNCHANGED checkVars

\* stop: Task.cancel() raises CancelledError in the task at the await it
\* stands at, which neither "except Exception" of check_single_rule nor
\* that of _check_loop catches: gather cancels the probes and no result of
\* the cycle is written.
stop ==
    /\ running' = FALSE
    /\ IF loops # <<>> /\ Alive(loops[Len(loops)])
       THEN /\ loops' = [loops EXCEPT ![Len(loops)].pc = "cancelled"]
            /\ inflight' = [inflight EXCEPT !["loop"] = <<>>]
       ELSE UNCHANGED <<loops, inflight>>
    /\ UNCHANGED health_status

\* A plausible slip: an exception of a cycle ends the task.
AfterCycleRaisedUncaught == "finished"

\* "except Exception as e: print(...)" in _check_loop: the task goes on to
\* its sleep.
AfterCycleRaised == "sleeping"

\* _check_loop, task t, from its creation or from the end of its sleep: the
\* test of _running and, when it holds, check_all_rules up to its await.
check_loop_resume(t) ==
    /\ loops[t].pc \in {"created", "sleeping"}
    /\ IF ~running
       THEN /\ loops' = [loops EXCEPT ![t].pc = "finished"]
            /\ UNCHANGED checkVars
       ELSE LET raises == \E i \in 1..Len(store) : ~ProxyRuleOK(store[i])
            IN /\ check_all_rules_begin("loop")
               /\ loops' = [loops EXCEPT
                     ![t].pc = IF raises THEN AfterCycleRaised
                               ELSE "checking",
                     ![t].cycle = (@ + 1) % CycleMod,
                     ![t].raised = raises]
    /\ UNCHANGED running

\* _check_loop, task t, when the gather of its cycle is done: the results are
\* written and the task sleeps.
check_loop_gathered(t, outcomes, ms) ==
    /\ loops[t].pc = "checking"
    /\ check_all_rules_end("loop", outcomes, ms)
    /\ loops' = [loops EXCEPT ![t].pc = "sleeping"]
    /\ UNCHANGED running

Healthy(hs) == {id \in DOMAIN hs : hs[id].status = "healthy"}
Unhealthy(hs) == {id \in DOMAIN hs : hs[id].status = "unhealthy"}

RECURSIVE SumTimes(_, _)
SumTimes(hs, S) ==
    IF S = {} THEN 0
    ELSE LET id == CHOOSE x \in S : TRUE
         IN hs[id].response_time_ms + SumTimes(hs, S \ {id})

\* round(x, 2) of the quotient a / b, in hundredths.
Round2(a, b) == (200 * a + b) \div (2 * b)

\* get_statistics: health_rate and avg_response_time_ms in hundredths, -1
\* for an avg_response_time_ms or a last_check_time of None.
Statistics(hs) ==
    LET total == Cardinality(DOMAIN hs)
        healthy == Cardinality(Healthy(hs))
        unhealthy == Cardinality(Unhealthy(hs))
        timed == {id \in DOMAIN hs : hs[id].response_time_ms # -1}
    IN [total |-> total,
        healthy |-> healthy,
        unhealthy |-> unhealthy,
        unknown |-> total - healthy - unhealthy,
        health_rate |-> IF total > 0 THEN Round2(healthy * 100, total) ELSE 0,
        avg_response_time_ms |->
            IF timed # {} THEN Round2(SumTimes(hs, timed), Cardinality(timed))
            ELSE -1,
        last_check_time |->
            Max({hs[id].last_check_time : id \in DOMAIN hs}, -1)]

get_statistics == Statistics(health_status)

-----------------------------------------------------------------------------
(* app/api/routes.py                                                       *)

\* The exceptions that are a ValueError: those add_rule, update_rule and
\* delete_rule raise themselves, and pydantic's ValidationError.
ValueErrors == {"DuplicatePath", "NotFound", "ValidationError"}

\* What a route raises inside its own try block, with the request it got.
Raised(route, kind, code, request) ==
    [op |-> route, kind |-> kind, id |-> NoneS, name |-> -1, code |-> code,
     request |-> request]

\* The status of the response to the request whose outcome is r: the
\* declared status when the manager call returned; otherwise what the except
\* clauses of the route make of the exception, "except ValueError" first
\* (404 in delete_rule, 400 elsewhere) and then "except Exception", which
\* also catches the HTTPException the route has raised itself.
StatusOf(r) ==
    CASE r.kind = "ok" -> IF r.op = "add" THEN 201 ELSE 200
      [] r.kind \in ValueErrors -> IF r.op = "delete" THEN 404 ELSE 400
      [] OTHER -> 500

\* POST /rules: create_rule(rule_data), rule_data a ProxyRuleCreate (it has
\* no id field).
create_rule(rule_data) ==
    IF \E i \in 1..Len(store) : ~ProxyRuleOK(store[i])
    THEN \* get_rule_by_path -> get_all_rules -> ProxyRule(**rule_data) raises
         /\ res' = Raised("POST /rules", "ValidationError", 0, rule_data)
         /\ UNCHANGED <<store, backups>>
    ELSE IF \E i \in 1..Len(store) : store[i].path = rule_data.path
    THEN /\ res' = Raised("POST /rules", "HTTPException", 409, rule_data)
         /\ UNCHANGED <<store, backups>>
    ELSE add_rule([id |-> NoneS,
                   path |-> rule_data.path,
                   target_port |-> rule_data.target_port,
                   enabled |-> rule_data.enabled,
                   health_check_path |-> rule_data.health_check_path])

\* PUT /rules/{rule_id}: update_rule(rule_id, rule_data), rule_data a
\* ProxyRuleUpdate dumped with exclude_none.
route_update_rule(rule_id, rule_data) ==
    IF \E i \in 1..Len(store) : ~ProxyRuleOK(store[i])
    THEN /\ res' = Raised("PUT /rules", "ValidationError", 0,
                          [id |-> rule_id, updates |-> rule_data])
         /\ UNCHANGED <<store, backups>>
    ELSE IF \A i \in 1..Len(store) : store[i].id # rule_id
    THEN /\ res' = Raised("PUT /rules", "HTTPException", 404,
                          [id |-> rule_id, updates |-> rule_data])
         /\ UNCHANGED <<store, backups>>
    ELSE update_rule(rule_id, rule_data)

\* DELETE /rules/{rule_id}
route_delete_rule(rule_id) == delete_rule(rule_id)

-----------------------------------------------------------------------------
(* The handlers of overlapping requests. The routes are coroutines run by  *)
(* one event loop; the calls they make into ConfigManager and NginxManager *)
(* are followed here statement by statement, so that what a handler does   *)
(* between two statements of another is a step the model can take or not.  *)

\* Two requests at a time are followed, a first and a second.
Handlers == {1, 2}

\* The routes followed: POST /reload, POST /rules, DELETE /rules/{rule_id}.
Mutations == {"POST /rules", "DELETE /rules"}

\* A handler: its route, its argument (the path of the rule to create, the
\* id of the rule to delete), where it stands (accepted: the coroutine is
\* created and has not run; then the statement it is to run next; done), and
\* its locals: rules (the list _read_yaml returned), cfg (config_content)
\* and saved (what it copied to the backup file). A handler that has
\* returned is gone with its locals.
NoRequest ==
    [route |-> "none", arg |-> NoneS, pc |-> "done", rules |-> <<>>,
     cfg |-> <<>>, saved |-> <<>>]

\* The handler has run some of its statements and not all of them.
Started(q) == q.pc \notin {"accepted", "done"}

\* A plausible slip: the managers' methods are coroutines that await their
\* file and subprocess calls.
AwaitsEverywhere(route) == TRUE

\* The handler of the route gives the event loop the control back before
\* it returns: of the routes, only trigger_health_check has an await.
Awaits(route) == route = "POST /health/check"

\* A plausible slip: the routes are declared with def and run in the
\* threadpool, whenever a thread is free.
CanRunInThreadpool(r) == TRUE

\* The event loop runs a statement of handler r: no other handler has
\* started and not finished, unless it stands at an await.
CanRun(r) ==
    \A q \in DOMAIN requests \ {r} :
        Started(requests[q]) => Awaits(requests[q].route)

\* A request arrives and its handler is created, the first when none is
\* there.
accept(r, route, arg) ==
    /\ requests[r].pc = "done"
    /\ \A q \in DOMAIN requests : q < r => requests[q].pc # "done"
    /\ requests' = [requests EXCEPT
          ![r] = [NoRequest EXCEPT !.route = route, !.arg = arg,
                                   !.pc = "accepted"]]
    /\ UNCHANGED <<store, backups, live, slot>>

\* One statement of update_and_reload in the handler r of POST /reload: the
\* template is there and the copies and the write succeed; the reload
\* command does whatever it can.
reload_step(r) ==
    LET q == requests[r]
        To(pc) == [requests EXCEPT ![r].pc = pc]
        Return == [requests EXCEPT ![r] = NoRequest]
    IN /\ q.route = "POST /reload"
       /\ CASE q.pc = "accepted" ->
                 /\ IF GenerateFails(TRUE)
                    THEN requests' = Return
                    ELSE requests' = [To("backup") EXCEPT
                                        ![r].cfg = <<generate_config>>]
                 /\ UNCHANGED <<live, slot>>
            [] q.pc = "backup" ->
                 /\ slot' = IF live # <<>> THEN live ELSE slot
                 /\ requests' = [To("write") EXCEPT ![r].saved = live]
                 /\ UNCHANGED live
            [] q.pc = "write" ->
                 /\ live' = q.cfg
                 /\ requests' = To("reload")
                 /\ UNCHANGED slot
            [] q.pc = "reload" ->
                 /\ \E o \in ReloadOutcomes :
                       requests' = IF ~reload_nginx(o).success /\ slot # <<>>
                                   THEN To("restore") ELSE Return
                 /\ UNCHANGED <<live, slot>>
            [] q.pc = "restore" ->
                 /\ live' = slot
                 /\ requests' = Return
                 /\ UNCHANGED slot
       /\ UNCHANGED <<store, backups>>

\* One statement of create_rule and of the add_rule it calls, in the
\* handler r of POST /rules.
create_step(r) ==
    LET q == requests[r]
        To(pc) == [requests EXCEPT ![r].pc = pc]
        End(outcome) == [requests EXCEPT ![r] = NoRequest]
    IN /\ q.route = "POST /rules"
       /\ CASE q.pc = "accepted" ->
                 \* get_rule_by_path
                 /\ requests' =
                       IF \E i \in 1..Len(store) : ~ProxyRuleOK(store[i])
                       THEN End("ValidationError")
                       ELSE IF \E i \in 1..Len(store) : store[i].path = q.arg
                       THEN End("HTTPException")
                       ELSE To("backup")
                 /\ UNCHANGED <<store, backups>>
            [] q.pc = "backup" ->
                 /\ backups' = backup_config
                 /\ requests' = To("read")
                 /\ UNCHANGED store
            [] q.pc = "read" ->
                 /\ requests' = [To("write") EXCEPT ![r].rules = store]
                 /\ UNCHANGED <<store, backups>>
            [] q.pc = "write" ->
                 /\ IF \E i \in 1..Len(q.rules) : q.rules[i].path = q.arg
                    THEN /\ requests' = End("DuplicatePath")
                         /\ UNCHANGED store
                    ELSE /\ store' = Append(q.rules,
                                            [id |-> NextId(q.rules),
                                             path |-> q.arg,
                                             target_port |-> 80,
                                             enabled |-> TRUE,
                                             health_check_path |-> NoneS,
                                             created_at |-> now,
                                             updated_at |-> now])
                         /\ requests' = End("ok")
                 /\ UNCHANGED backups
       /\ UNCHANGED <<live, slot>>

\* One statement of delete_rule in the handler r of DELETE /rules/{rule_id}.
delete_step(r) ==
    LET q == requests[r]
        To(pc) == [requests EXCEPT ![r].pc = pc]
        End(outcome) == [requests EXCEPT ![r] = NoRequest]
        rules == SelectSeq(q.rules, LAMBDA x : x.id # q.arg)
    IN /\ q.route = "DELETE /rules"
       /\ CASE q.pc = "accepted" ->
                 /\ backups' = backup_config
                 /\ requests' = To("read")
                 /\ UNCHANGED store
            [] q.pc = "read" ->
                 /\ requests' = [To("write") EXCEPT ![r].rules = store]
                 /\ UNCHANGED <<store, backups>>
            [] q.pc = "write" ->
                 /\ IF Len(rules) = Len(q.rules)
                    THEN /\ requests' = End("NotFound")
                         /\ UNCHANGED store
                    ELSE /\ store' = rules
                         /\ requests' = End("ok")
                 /\ UNCHANGED backups
       /\ UNCHANGED <<live, slot>>

\* The event loop runs the next statement of handler r.
run(r) ==
    /\ requests[r].pc # "done"
    /\ CanRun(r)
    /\ reload_step(r) \/ create_step(r) \/ delete_step(r)

-----------------------------------------------------------------------------
(* Time.                                                                   *)

\* The clock value has been written somewhere: seconds in which nothing was
\* stamped are indistinguishable and are skipped.
ClockObserved ==
    \/ now \in DOMAIN backups
    \/ \E i \in 1..Len(store) : store[i].updated_at = now
    \/ live # <<>> /\ live[1].generated_at = now
    \/ \E id \in DOMAIN health_status : health_status[id].last_check_time = now
    \/ \E c \in DOMAIN inflight :
          inflight[c] # <<>> /\ \E i \in 1..Len(inflight[c][1]) :
                                   inflight[c][1][i].last_check_time = now

TickTo(limit) ==
    /\ now < limit
    /\ ClockObserved
    /\ now' = now + 1
    /\ UNCHANGED <<storeVars, histVars, nginxVars, healthVars>>

-----------------------------------------------------------------------------
(* scripts/monitor_ntfy.py                                                 *)

CheckInterval == 60
AlertInterval == 600
HealthyInterval == 21600

\* The paths of the services the status payload can report as unhealthy.
Services == {"/a", "/b"}

\* What fetch_monitor_status returns: <<>> for None, or <<the payload>>, of
\* which check_and_notify reads overall_status and the paths of
\* unhealthy_services.
StatusData ==
    {<<>>} \cup {<<d>> : d \in [overall_status : {"healthy", "unhealthy"},
                               unhealthy_services : SUBSET Services]}

\* load_state with no state file.
load_state ==
    [last_unhealthy |-> {}, last_alert_time |-> 0,
     last_healthy_notify_time |-> 0]

\* time.time(): the epoch clock is ahead of the clock of the model by more
\* than any of the intervals, so that the time stamps 0 of a new state lie
\* further back than each of them.
time_time == now + HealthyInterval

\* A plausible slip: the recovery notification held back like a repeated
\* alert.
RecoveryDueRateLimited(recovered, time_since_last_alert) ==
    recovered # {} /\ time_since_last_alert >= AlertInterval

\* "if recovered:"
RecoveryDue(recovered, time_since_last_alert) == recovered # {}

\* check_and_notify(state) at second t with status_data fetched: the state
\* dict after the call and the notifications sent by it.
check_and_notify(state, status_data, t) ==
    IF status_data = <<>>
    THEN IF t - state.last_alert_time >= AlertInterval
         THEN [state |-> [state EXCEPT !.last_alert_time = t],
               sent |-> {"unreachable"}]
         ELSE [state |-> state, sent |-> {}]
    ELSE LET overall_status == status_data[1].overall_status
             current == status_data[1].unhealthy_services
             previous == state.last_unhealthy
             recovered == previous \ current
             recovery == RecoveryDue(recovered, t - state.last_alert_time)
             state1 == IF recovery THEN [state EXCEPT !.last_alert_time = t]
                       ELSE state
             abnormal == overall_status # "healthy" /\ current # {}
             new_unhealthy == current \ previous
             alert == /\ abnormal
                      /\ \/ new_unhealthy # {}
                         \/ t - state1.last_alert_time >= AlertInterval
             healthy == /\ ~abnormal
                        /\ overall_status = "healthy"
                        /\ t - state1.last_healthy_notify_time
                              >= HealthyInterval
             state2 == IF alert THEN [state1 EXCEPT !.last_alert_time = t]
                       ELSE IF healthy
                       THEN [state1 EXCEPT !.last_healthy_notify_time = t]
                       ELSE state1
         IN [state |-> [state2 EXCEPT !.last_unhealthy = current],
             sent |-> {k \in {"recovered"} : recovery}
                         \cup {k \in {"alert"} : alert}
                         \cup {k \in {"healthy"} : healthy}]

\* The monitor before its first check. Beside the state dict, for the
\* properties: the second of the last check, what it fetched and sent, the
\* state dict it began with, the second of the last notification of
\* unhealthy services (0: none yet), and whether every payload fetched so
\* far had an overall_status of healthy exactly when it named no unhealthy
\* service.
NoCheck ==
    [state |-> load_state, at |-> 0, fetched |-> <<>>, sent |-> {},
     before |-> load_state, alerted |-> 0, coherent |-> TRUE]

Coherent(status_data) ==
    status_data # <<>> =>
        (status_data[1].overall_status = "healthy"
            <=> status_data[1].unhealthy_services = {})

\* One turn of the loop of main: check_and_notify, then CheckInterval
\* seconds of sleep.
main_loop(status_data) ==
    LET t == time_time
        done == check_and_notify(monitor.state, status_data, t)
    IN /\ monitor' = [state |-> done.state, at |-> t,
                       fetched |-> status_data, sent |-> done.sent,
                       before |-> monitor.state,
                       alerted |-> IF "alert" \in done.sent THEN t
                                   ELSE monitor.alerted,
                       coherent |-> monitor.coherent /\ Coherent(status_data)]
       /\ now' = now + CheckInterval

-----------------------------------------------------------------------------
(* History of the successful mutations.                                    *)

LastN(s, n) == IF Len(s) > n THEN SubSeq(s, Len(s) - n + 1, Len(s)) ELSE s

Tracked(A) ==
    /\ A
    /\ IF res'.kind = "ok" /\ res'.op \in {"add", "update", "delete"}
       THEN /\ nOk' = nOk + 1
            /\ hist' = LastN(Append(hist, store), KeepBackups)
       ELSE UNCHANGED <<nOk, hist>>
    /\ nRestore' = IF res'.op = "restore" THEN nRestore + 1 ELSE nRestore

Untracked(A) == A /\ UNCHANGED histVars

-----------------------------------------------------------------------------
(* The rule store under its whole interface: candidates with and without   *)
(* an id, well-formed and malformed updates.                               *)

PA == <<"/", "a">>
PB == <<"/", "b">>
PBlank == <<"/", "a", " ", "b">>
PRel == <<"h">>

Ids == {<<"1">>, <<"2">>}

Candidates ==
    {c \in [id : {NoneS, <<"1">>},
            path : {PA, PB},
            target_port : {80},
            enabled : {TRUE},
            health_check_path : {NoneS}] : ProxyRuleOK(c)}

Updates ==
    {[path |-> PA], [path |-> PB], [path |-> PBlank], [path |-> NoneS],
     [target_port |-> 0], [health_check_path |-> PRel],
     [enabled |-> FALSE]}

CanAdd(c) ==
    /\ Len(store) < MaxRules
    /\ c.id = NoneS => int(NextId(store)) <= MaxId

Add == \E c \in Candidates : CanAdd(c) /\ Untracked(add_rule(c)) /\ UNCHANGED <<now, nginxVars, healthVars>>

Update ==
    \E id \in Ids, u \in Updates : Untracked(update_rule(id, u)) /\ UNCHANGED <<now, nginxVars, healthVars>>

Delete == \E id \in Ids : Untracked(delete_rule(id)) /\ UNCHANGED <<now, nginxVars, healthVars>>

\* The managers as constructed on a new installation: an empty rule store,
\* no snapshot, no generated nginx configuration, no health result.
InitWith(stores, modes) ==
    /\ now = 0
    /\ store \in stores
    /\ backups = EmptyBackups
    /\ res = Result("none", "ok", NoneS, -1)
    /\ nOk = 0
    /\ hist = <<>>
    /\ nRestore = 0
    /\ is_docker \in modes
    /\ live = <<>>
    /\ slot = <<>>
    /\ nres = NoCall
    /\ health_status = NoResults
    /\ inflight = [c \in Callers |-> <<>>]
    /\ running = FALSE
    /\ loops = <<>>
    /\ requests = [r \in Handlers |-> NoRequest]
    /\ monitor = NoCheck

Init == InitWith({<<>>}, {FALSE})

Next == Add \/ Update \/ Delete

Spec == Init /\ [][Next]_vars

-----------------------------------------------------------------------------
(* The snapshots of the rule store: one rule added and deleted over and    *)
(* over by successful calls that may or may not fall into the same second, *)
(* and a restore of one of the snapshots listed.                           *)

\* The clock stops ticking at MaxSnapTime.
MaxSnapTime == 10
\* No further mutation is made after MaxMutations successful ones.
MaxMutations == 11
\* No further restore is made after MaxRestores.
MaxRestores == 1

SnapCandidate ==
    [id |-> NoneS, path |-> PA, target_port |-> 80, enabled |-> TRUE,
     health_check_path |-> NoneS]

SnapAdd ==
    /\ nOk < MaxMutations
    /\ store = <<>>
    /\ Tracked(add_rule(SnapCandidate))
    /\ UNCHANGED <<now, nginxVars, healthVars>>

SnapDelete ==
    /\ nOk < MaxMutations
    /\ \E id \in {store[i].id : i \in 1..Len(store)} :
          Tracked(delete_rule(id))
    /\ UNCHANGED <<now, nginxVars, healthVars>>

SnapRestore ==
    /\ nRestore < MaxRestores
    /\ \E name \in DOMAIN backups :
          Tracked(restore_from_backup(name))
    /\ UNCHANGED <<now, nginxVars, healthVars>>

SnapTick == TickTo(MaxSnapTime)

NextSnap == SnapAdd \/ SnapDelete \/ SnapRestore \/ SnapTick

SpecSnap == Init /\ [][NextSnap]_vars

-----------------------------------------------------------------------------
(* The pruning of the snapshots: delete_rule calls for an id the store     *)
(* does not hold take a snapshot each, second after second; among them a   *)
(* few calls that succeed (add, update, delete) or restore the oldest or   *)
(* the newest snapshot.                                                    *)

MaxPruneCalls == 3

\* Fewer than MaxPruneCalls calls have succeeded or were a restore.
PruneBudget == nOk + nRestore < MaxPruneCalls

PruneAdd ==
    /\ PruneBudget
    /\ store = <<>>
    /\ Tracked(add_rule(SnapCandidate))
    /\ UNCHANGED <<now, nginxVars, healthVars>>

PruneUpdate ==
    /\ PruneBudget
    /\ Tracked(update_rule(<<"1">>, [enabled |-> FALSE]))
    /\ UNCHANGED <<now, nginxVars, healthVars>>

PruneDelete ==
    /\ PruneBudget
    /\ Tracked(delete_rule(<<"1">>))
    /\ UNCHANGED <<now, nginxVars, healthVars>>

PruneMiss ==
    /\ Tracked(delete_rule(<<"2">>))
    /\ UNCHANGED <<now, nginxVars, healthVars>>

PruneRestore ==
    /\ PruneBudget
    /\ nRestore < MaxRestores
    /\ \E name \in DOMAIN backups :
          /\ \/ \A n \in DOMAIN backups : name <= n
             \/ \A n \in DOMAIN backups : name >= n
          /\ Tracked(restore_from_backup(name))
    /\ UNCHANGED <<now, nginxVars, healthVars>>

PruneTick == TickTo(MaxSnapTime)

NextPrune ==
    \/ PruneAdd \/ PruneUpdate \/ PruneDelete
    \/ PruneMiss \/ PruneRestore \/ PruneTick

SpecPrune == Init /\ [][NextPrune]_vars

-----------------------------------------------------------------------------
(* The rule store with ids assigned by add_rule only: no candidate carries *)
(* an id.                                                                   *)

AutoAdd ==
    \E c \in {x \in Candidates : x.id = NoneS} :
        CanAdd(c) /\ Untracked(add_rule(c)) /\ UNCHANGED <<now, nginxVars, healthVars>>

NextAuto == AutoAdd \/ Update \/ Delete

SpecAuto == Init /\ [][NextAuto]_vars

-----------------------------------------------------------------------------
(* add_rule on stores holding any ids: the store is drawn from the rules   *)
(* lists of at most MaxIdStoreLen rules whose ids come from IdPool, and one *)
(* rule without an id is added.                                            *)

MaxIdStoreLen == 3

IdPool == {<<"1">>, <<"2">>, <<"5">>, <<"x">>, <<"1", "0">>}

PoolPaths == <<PA, PB, <<"/", "c">>, <<"/", "d">>>>

PD == <<"/", "n">>

IdStores ==
    UNION {{[i \in 1..n |->
               [id |-> ids[i], path |-> PoolPaths[i], target_port |-> 80,
                enabled |-> TRUE, health_check_path |-> NoneS,
                created_at |-> 0, updated_at |-> 0]] :
            ids \in [1..n -> IdPool]} : n \in 0..MaxIdStoreLen}

InitNextId == InitWith(IdStores, {FALSE})

AddToIdStore ==
    /\ res.op = "none"
    /\ Untracked(add_rule([id |-> NoneS, path |-> PD, target_port |-> 80,
                           enabled |-> TRUE, health_check_path |-> NoneS]))
    /\ UNCHANGED <<now, nginxVars, healthVars>>

NextNextId == AddToIdStore

SpecNextId == InitNextId /\ [][NextNextId]_vars

-----------------------------------------------------------------------------
(* Restoring snapshots of a store that a malformed update has left invalid. *)

RestoreAdd ==
    /\ store = <<>>
    /\ Untracked(add_rule(SnapCandidate))
    /\ UNCHANGED <<now, nginxVars, healthVars>>

RestoreUpdate ==
    /\ \E u \in {[path |-> PBlank], [path |-> PA]} :
          Untracked(update_rule(<<"1">>, u))
    /\ UNCHANGED <<now, nginxVars, healthVars>>

RestoreRestore ==
    /\ nRestore < MaxRestores
    /\ \E name \in DOMAIN backups :
          Tracked(restore_from_backup(name))
    /\ UNCHANGED <<now, nginxVars, healthVars>>

RestoreTick == TickTo(MaxTime)

NextRestore == RestoreAdd \/ RestoreUpdate \/ RestoreRestore \/ RestoreTick

SpecRestore == Init /\ [][NextRestore]_vars

-----------------------------------------------------------------------------
(* SpecNginx: the rule store and POST /nginx/reload, in either deployment  *)
(* mode, over a few seconds.                                               *)

MaxCalls == 2

AllEnvs ==
    [template : BOOLEAN, backup : BOOLEAN, write : WriteOutcomes,
     reload : ReloadOutcomes, restore : BOOLEAN]

\* At most one of the template, the backup copy and the write fails in a
\* call; the reload command and the restoring copy do anything they can.
Envs ==
    {e \in AllEnvs :
        Cardinality({k \in {"template", "backup"} : ~e[k]}
                    \cup {k \in {"write"} : e[k] # "ok"}) <= 1}

NginxAdd ==
    /\ \E c \in {c \in Candidates : c.id # NoneS} :
          CanAdd(c) /\ Untracked(add_rule(c))
    /\ UNCHANGED <<now, nginxVars, healthVars>>

NginxUpdate ==
    /\ \E id \in Ids : Untracked(update_rule(id, [path |-> PA]))
    /\ UNCHANGED <<now, nginxVars, healthVars>>

Reconcile ==
    /\ nres.calls < MaxCalls
    /\ \E env \in Envs : update_and_reload(env)
    /\ UNCHANGED <<now, storeVars, histVars, is_docker, healthVars, requests, monitor>>

NginxTick == TickTo(MaxTime)

InitNginx == InitWith({<<>>}, BOOLEAN)

NextNginx == NginxAdd \/ NginxUpdate \/ Reconcile \/ NginxTick

SpecNginx == InitNginx /\ [][NextNginx]_vars

-----------------------------------------------------------------------------
(* SpecReload: POST /nginx/reload over a store of one rule that a          *)
(* malformed update can leave invalid, all calls within one second.        *)

NextReload == RestoreAdd \/ RestoreUpdate \/ Reconcile

SpecReload == InitNginx /\ [][NextReload]_vars

-----------------------------------------------------------------------------
(* SpecRollback: as SpecReload, with calls enough for a configuration to   *)
(* be live and two further calls to restore the backup, one after the      *)
(* other.                                                                  *)

MaxRollbackCalls == 3

ReconcileAgain ==
    /\ nres.calls < MaxRollbackCalls
    /\ \E env \in Envs : update_and_reload(env)
    /\ UNCHANGED <<now, storeVars, histVars, is_docker, healthVars, requests, monitor>>

NextRollback == RestoreAdd \/ RestoreUpdate \/ ReconcileAgain

SpecRollback == InitNginx /\ [][NextRollback]_vars

-----------------------------------------------------------------------------
(* SpecLoop: the poller is started and stopped while its loop runs over a  *)
(* store of one rule that a malformed update can leave unreadable.         *)

MaxLoops == 2

\* What the probes of one check_all_rules do: the first k connect and the
\* others are refused, or all of them do the same one of the ProbeOutcomes.
OutcomeLists(n) ==
    {[i \in 1..n |-> IF i <= k THEN "connected" ELSE "refused"] : k \in 0..n}
        \cup {[i \in 1..n |-> o] : o \in ProbeOutcomes}

ProbeMs == 5

PollerStart ==
    /\ running \/ Len(loops) < MaxLoops
    /\ start
    /\ UNCHANGED <<now, storeVars, histVars, nginxVars>>

PollerStop ==
    /\ stop
    /\ UNCHANGED <<now, storeVars, histVars, nginxVars>>

LoopResume ==
    /\ \E t \in DOMAIN loops : check_loop_resume(t)
    /\ UNCHANGED <<now, storeVars, histVars, nginxVars>>

LoopGathered ==
    /\ \E t \in DOMAIN loops :
          /\ inflight["loop"] # <<>>
          /\ \E outcomes \in OutcomeLists(Len(inflight["loop"][1])) :
                check_loop_gathered(t, outcomes,
                                    [i \in 1..Len(inflight["loop"][1]) |-> ProbeMs])
    /\ UNCHANGED <<now, storeVars, histVars, nginxVars>>

NextLoop ==
    \/ RestoreAdd \/ RestoreUpdate
    \/ PollerStart \/ PollerStop \/ LoopResume \/ LoopGathered

SpecLoop == Init /\ [][NextLoop]_vars

\* The event loop runs a task that can run, and a sleep and a gather end.
SpecLoopFair ==
    SpecLoop /\ WF_vars(LoopResume) /\ WF_vars(LoopGathered)

-----------------------------------------------------------------------------
(* SpecProbe: the check_all_rules calls of POST /health/check with the     *)
(* clock running: probes that hang are over when their timeout expires.    *)

MaxProbeRules == 2
MaxProbeTime == 6

ProbeAdd ==
    /\ Len(store) < MaxProbeRules
    /\ Untracked(add_rule([id |-> NoneS,
                           path |-> <<"/", "r">> \o str(Len(store) + 1),
                           target_port |-> 80, enabled |-> TRUE,
                           health_check_path |-> NoneS]))
    /\ UNCHANGED <<now, nginxVars, healthVars>>

ProbeBegin ==
    /\ check_all_rules_begin("manual")
    /\ UNCHANGED <<now, storeVars, histVars, nginxVars, loopVars>>

ProbeEnd ==
    /\ inflight["manual"] # <<>>
    /\ \E outcomes \in OutcomeLists(Len(inflight["manual"][1])) :
          /\ TimingAllows(inflight["manual"][1], outcomes)
          /\ check_all_rules_end("manual", outcomes,
                                 [i \in 1..Len(inflight["manual"][1]) |-> ProbeMs])
    /\ UNCHANGED <<now, storeVars, histVars, nginxVars, loopVars>>

ProbeTick ==
    /\ now < MaxProbeTime
    /\ \A c \in Callers : ~CycleDue(c)
    /\ now' = now + 1
    /\ UNCHANGED <<storeVars, histVars, nginxVars, healthVars>>

NextProbe == ProbeAdd \/ ProbeBegin \/ ProbeEnd \/ ProbeTick

SpecProbe == Init /\ [][NextProbe]_vars

-----------------------------------------------------------------------------
(* SpecCycle: the check_all_rules calls of POST /health/check over a store *)
(* of two rules, each probe doing any of the things a probe can do.        *)

HealthPath(n) == <<"/", "r">> \o str(n)

\* The clock stops ticking at MaxCycleTime.
MaxCycleTime == 1

CycleStores ==
    {[i \in 1..2 |->
         [id |-> str(i), path |-> HealthPath(i), target_port |-> 80,
          enabled |-> TRUE, health_check_path |-> NoneS,
          created_at |-> 0, updated_at |-> 0]]}

InitCycle == InitWith(CycleStores, {FALSE})

CycleBegin ==
    /\ check_all_rules_begin("manual")
    /\ UNCHANGED <<now, storeVars, histVars, nginxVars, loopVars>>

CycleEnd ==
    /\ inflight["manual"] # <<>>
    /\ \E outcomes \in [1..Len(inflight["manual"][1]) -> ProbeOutcomes] :
          check_all_rules_end("manual", outcomes,
                              [i \in 1..Len(inflight["manual"][1]) |-> ProbeMs])
    /\ UNCHANGED <<now, storeVars, histVars, nginxVars, loopVars>>

CycleTick == TickTo(MaxCycleTime)

NextCycle == CycleBegin \/ CycleEnd \/ CycleTick

SpecCycle == InitCycle /\ [][NextCycle]_vars

-----------------------------------------------------------------------------
(* SpecRace: the cycles of the polling loop and the check_all_rules calls  *)
(* of POST /health/check over the same two rules, with the clock running:  *)
(* a cycle of one caller can begin and end while one of the other is in    *)
(* its gather.                                                             *)

RaceGathered ==
    /\ \E t \in DOMAIN loops :
          /\ inflight["loop"] # <<>>
          /\ \E outcomes \in OutcomeLists(Len(inflight["loop"][1])) :
                /\ TimingAllows(inflight["loop"][1], outcomes)
                /\ check_loop_gathered(t, outcomes,
                                       [i \in 1..Len(inflight["loop"][1]) |-> ProbeMs])
    /\ UNCHANGED <<now, storeVars, histVars, nginxVars>>

NextRace ==
    \/ PollerStart \/ LoopResume \/ RaceGathered
    \/ ProbeBegin \/ ProbeEnd \/ ProbeTick

SpecRace == InitCycle /\ [][NextRace]_vars

-----------------------------------------------------------------------------
(* SpecMonitor: the monitor checks every CheckInterval seconds; each       *)
(* fetch fails or returns any payload.                                     *)

MaxMonitorChecks == 12

MonitorCheck ==
    /\ now < MaxMonitorChecks * CheckInterval
    /\ \E status_data \in StatusData : main_loop(status_data)
    /\ UNCHANGED <<storeVars, histVars, is_docker, live, slot, nres,
                   requests, healthVars>>

SpecMonitor == Init /\ [][MonitorCheck]_vars

-----------------------------------------------------------------------------
(* SpecHealth: rules are added and disabled between the check_all_rules    *)
(* calls of POST /health/check; the poller is not started.                 *)

MaxHealthRules == 6

HealthAdd ==
    /\ Len(store) < MaxHealthRules
    /\ Untracked(add_rule([id |-> NoneS, path |-> HealthPath(Len(store) + 1),
                           target_port |-> 80, enabled |-> TRUE,
                           health_check_path |-> NoneS]))
    /\ UNCHANGED <<now, nginxVars, healthVars>>

HealthDisable ==
    /\ Untracked(update_rule(<<"1">>, [enabled |-> FALSE]))
    /\ UNCHANGED <<now, nginxVars, healthVars>>

CheckBegin ==
    /\ check_all_rules_begin("manual")
    /\ UNCHANGED <<now, storeVars, histVars, nginxVars, loopVars>>

CheckEnd ==
    /\ inflight["manual"] # <<>>
    /\ \E outcomes \in OutcomeLists(Len(inflight["manual"][1])) :
          check_all_rules_end("manual", outcomes,
                              [i \in 1..Len(inflight["manual"][1]) |-> ProbeMs])
    /\ UNCHANGED <<now, storeVars, histVars, nginxVars, loopVars>>

NextHealth == HealthAdd \/ HealthDisable \/ CheckBegin \/ CheckEnd

SpecHealth == Init /\ [][NextHealth]_vars

-----------------------------------------------------------------------------
(* SpecUpdateId: update_rule called with mappings that carry the key id,   *)
(* as a caller of ConfigManager can pass them (the body of PUT             *)
(* /rules/{rule_id}, a ProxyRuleUpdate, has no such field).                *)

IdUpdates ==
    {[id |-> <<"2">>], [id |-> <<"1">>, enabled |-> FALSE], [path |-> PB]}

UpdateWithId ==
    /\ \E id \in Ids, u \in IdUpdates : Untracked(update_rule(id, u))
    /\ UNCHANGED <<now, nginxVars, healthVars>>

NextUpdateId == AutoAdd \/ UpdateWithId \/ Delete

SpecUpdateId == Init /\ [][NextUpdateId]_vars

-----------------------------------------------------------------------------
(* SpecOverlap: requests to POST /reload, POST /rules and DELETE           *)
(* /rules/{rule_id} arrive while the handlers of others are yet to finish.  *)

Arrive ==
    /\ \E r \in DOMAIN requests :
          \/ accept(r, "POST /reload", NoneS)
          \/ \E path \in {PA, PB} : accept(r, "POST /rules", path)
          \/ \E id \in Ids : accept(r, "DELETE /rules", id)
    /\ UNCHANGED <<now, res, histVars, is_docker, nres, healthVars, monitor>>

Handle ==
    /\ \E r \in DOMAIN requests :
          /\ requests[r].route = "POST /rules" =>
                (Len(store) < MaxRules /\ int(NextId(store)) <= MaxId)
          /\ run(r)
    /\ UNCHANGED <<now, res, histVars, is_docker, nres, healthVars, monitor>>

NextOverlap == Arrive \/ Handle

SpecOverlap == Init /\ [][NextOverlap]_vars

-----------------------------------------------------------------------------
(* SpecHttp: the rule store behind POST, PUT and DELETE /api/rules. The    *)
(* request bodies are those ProxyRuleCreate and ProxyRuleUpdate accept.    *)

\* ProxyRuleCreate.validate_path and its target_port field.
ProxyRuleCreateOK(d) ==
    /\ validate_path(d.path)
    /\ d.target_port >= MinPort /\ d.target_port <= MaxPort

CreateBodies ==
    {d \in [path : {PA, PB, PBlank}, target_port : {80}, enabled : {TRUE},
            health_check_path : {NoneS}] : ProxyRuleCreateOK(d)}

\* ProxyRuleUpdate.validate_path (the path may hold a blank) and its
\* target_port field; health_check_path has no validator.
ProxyRuleUpdateOK(u) ==
    /\ "path" \in DOMAIN u => StartsWithSlash(u.path)
    /\ "target_port" \in DOMAIN u =>
          (u.target_port >= MinPort /\ u.target_port <= MaxPort)

UpdateBodies == {u \in Updates \ {[path |-> NoneS]} : ProxyRuleUpdateOK(u)}

HttpCreate ==
    /\ \E d \in CreateBodies :
          /\ Len(store) < MaxRules /\ int(NextId(store)) <= MaxId
          /\ Untracked(create_rule(d))
    /\ UNCHANGED <<now, nginxVars, healthVars>>

HttpUpdate ==
    /\ \E id \in Ids, u \in UpdateBodies : Untracked(route_update_rule(id, u))
    /\ UNCHANGED <<now, nginxVars, healthVars>>

HttpDelete ==
    /\ \E id \in Ids : Untracked(route_delete_rule(id))
    /\ UNCHANGED <<now, nginxVars, healthVars>>

NextHttp == HttpCreate \/ HttpUpdate \/ HttpDelete

SpecHttp == Init /\ [][NextHttp]_vars

-----------------------------------------------------------------------------
(* Properties of the rule store.                                           *)

RuleIds(rules) == [i \in 1..Len(rules) |-> rules[i].id]

\* The names of the snapshots, oldest first, as sorted(glob(...)) lists them.
RECURSIVE SortedNames(_)
SortedNames(S) ==
    IF S = {} THEN <<>>
    ELSE LET m == CHOOSE x \in S : \A y \in S : y <= x
         IN Append(SortedNames(S \ {m}), m)

\* The contents of the snapshots, oldest first.
SnapshotContents ==
    LET names == SortedNames(DOMAIN backups)
    IN [i \in 1..Len(names) |-> backups[names[i]]]

HasWhitespace(s) == \E i \in 1..Len(s) : s[i] \in {" ", "\t", "\n"}

\* The constraints the Rule of the data model puts on its fields.
RuleFieldConstraints(r) ==
    /\ StartsWithSlash(r.path) /\ ~HasWhitespace(r.path)
    /\ r.target_port \in 1..65535
    /\ r.health_check_path # NoneS => StartsWithSlash(r.health_check_path)

\* C1: after any sequence of add and update calls no two rules of the store
\* share a path.
C1_UniquePaths ==
    \A i, j \in 1..Len(store) : store[i].path = store[j].path => i = j

\* C4: after any sequence of add, update and delete calls every persisted
\* rule satisfies the field constraints of a Rule (a malformed update leaves
\* nothing in the store).
C4_PersistedRulesValid ==
    \A i \in 1..Len(store) : RuleFieldConstraints(store[i])

\* C5: once more than 10 mutations have succeeded, exactly 10 snapshots exist
\* and they hold, oldest first, the rules lists as they were before the 10
\* most recent successful mutations.
C5_TenLatestSnapshots ==
    nOk > KeepBackups =>
        /\ Cardinality(DOMAIN backups) = KeepBackups
        /\ SnapshotContents = hist

\* C6: a restore of a listed snapshot whose content fails validate_config
\* ends with InvalidState, and the snapshot taken of the store as it was
\* before the restore is listed afterwards.
C6_RestoreInvalid ==
    [][(/\ nRestore' = nRestore + 1
        /\ res'.name \in DOMAIN backups
        /\ ~validate_config(backups[res'.name]))
       => /\ res'.kind = "InvalidState"
          /\ now \in DOMAIN backups'
          /\ backups'[now] = store]_vars

\* C7, in the case it names: when 10 snapshots exist and the oldest of them,
\* whose content is valid, is restored, the restore snapshots the current
\* store, succeeds and leaves the store equal to the content of that snapshot.
C7_RestoreOldestOfTen ==
    [][(/\ nRestore' = nRestore + 1
        /\ res'.name \in DOMAIN backups
        /\ Cardinality(DOMAIN backups) = KeepBackups
        /\ \A n \in DOMAIN backups : res'.name <= n
        /\ validate_config(backups[res'.name]))
       => /\ res'.kind = "ok"
          /\ store' = backups[res'.name]
          /\ now \in DOMAIN backups'
          /\ backups'[now] = store]_vars

RemoveAt(rules, i) ==
    [k \in 1..(Len(rules) - 1) |-> IF k < i THEN rules[k] ELSE rules[k + 1]]

\* The positions of the rules with the given id.
Positions(rules, id) == {i \in 1..Len(rules) : rules[i].id = id}

\* C16: an update_rule or delete_rule call for an id that no rule of the store
\* has fails with NotFound and leaves the rules list as it was; a delete_rule
\* call for an id in the store removes that one rule, the others keeping
\* their content and their order.
C16_NotFoundAndDeleteOne ==
    [][res'.op \in {"update", "delete"} =>
          IF Positions(store, res'.id) = {}
          THEN res'.kind = "NotFound" /\ store' = store
          ELSE res'.op = "delete" =>
                  /\ res'.kind = "ok"
                  /\ \E i \in Positions(store, res'.id) :
                        store' = RemoveAt(store, i)]_vars

\* C17: an update_rule call that succeeds changes, in the first rule with the
\* id, the fields given with a value other than None and updated_at, and
\* nothing else: the other fields, created_at among them, the position of the
\* rule and all other rules stay; and an update of a rule's path to the path
\* it has succeeds.
C17_UpdateFrame ==
    [][(res'.op = "update" /\ Positions(store, res'.id) # {}) =>
          LET found == Positions(store, res'.id)
              i == CHOOSE i \in found : \A j \in found : i <= j
              u == res'.updates
              given == {k \in DOMAIN u :
                          ~(k \in {"path", "health_check_path"}
                            /\ u[k] = NoneS)}
          IN /\ res'.kind = "ok" =>
                  /\ Len(store') = Len(store)
                  /\ \A j \in 1..Len(store) : j # i => store'[j] = store[j]
                  /\ \A k \in DOMAIN store[i] :
                        store'[i][k] = IF k = "updated_at" THEN now
                                       ELSE IF k \in given THEN u[k]
                                       ELSE store[i][k]
             /\ (DOMAIN u = {"path"} /\ u.path = store[i].path) =>
                  res'.kind = "ok"]_vars

\* C18: add_rule, update_rule and delete_rule take the snapshot before they
\* write: in the state a call that succeeded and changed the store leaves,
\* some snapshot holds the rules list as it was before the call, also when
\* other calls fell into the same second.
C18_SnapshotOfPreState ==
    [][(res'.op \in {"add", "update", "delete"} /\ res'.kind = "ok"
        /\ store' # store) =>
          \E n \in DOMAIN backups' : backups'[n] = store]_vars

\* Two calls have succeeded within the second 0, the second of them a
\* delete_rule whose snapshot, of the store holding the rule, replaced the
\* snapshot of the empty store.
C18_Witness ==
    /\ now = 0 /\ nOk = 2
    /\ res.op = "delete" /\ res.kind = "ok"
    /\ store = <<>>
    /\ DOMAIN backups = {0} /\ backups[0] = hist[2] /\ backups[0] # <<>>

\* C19: whatever the calls (add, update, delete, restore, failing or not), at
\* most 10 snapshots are kept, and every snapshot a call unlinks has a name
\* older than every snapshot the call leaves.
C19_AtMostTenOldestFirst ==
    [][/\ Cardinality(DOMAIN backups') <= KeepBackups
       /\ \A n \in DOMAIN backups \ DOMAIN backups' :
             \A m \in DOMAIN backups' : n < m]_vars

\* Ten snapshots are left after the oldest ones were unlinked, a restore
\* having been among the calls.
C19_Witness ==
    /\ Cardinality(DOMAIN backups) = KeepBackups
    /\ 0 \notin DOMAIN backups
    /\ nRestore > 0

\* C23: with ids assigned by add_rule only, the id a successful add_rule
\* assigns is greater than the id assigned by the add_rule call before it
\* and greater than the id of the rule a delete_rule call has just removed:
\* the id of a deleted rule is not given out again.
C23_IdsNeverReused ==
    [][(/\ res'.op = "add" /\ res'.kind = "ok"
        /\ res.kind = "ok" /\ res.op \in {"add", "delete"})
       => int(res'.id) > int(res.id)]_vars

\* C30: an update_rule call changes the id of no rule, whatever the keys of
\* the mapping it is given: the rules have, position by position, the ids
\* they had before the call.
C30_UpdateKeepsIds ==
    [][res'.op = "update" => RuleIds(store') = RuleIds(store)]_vars

\* C31: a rule created, updated or deleted with success through its route
\* starts an update_and_reload call, without a POST /reload request.
C31_MutationTriggersReconcile ==
    [][(res'.op \in {"add", "update", "delete"} /\ res'.kind = "ok")
       => nres'.calls = nres.calls + 1]_vars

\* C22: POST /rules with a path some rule of the store has is answered with
\* status 400 or 409, and PUT /rules/{id} with an id no rule of the store has
\* is answered with status 404; neither is answered with 500.
C22_DuplicateAndUnknownStatus ==
    [][/\ (res'.op = "POST /rules"
           /\ \E i \in 1..Len(store) : store[i].path = res'.request.path)
          => StatusOf(res') \in {400, 409}
       /\ (res'.op = "PUT /rules"
           /\ Positions(store, res'.request.id) = {})
          => StatusOf(res') = 404]_vars

-----------------------------------------------------------------------------
(* Properties of update_and_reload.                                        *)

\* No copy and no write raised in the last call: it returned what
\* reload_nginx returned.
NoFileError == nres.calls > 0 /\ nres.message # "update_failed"

\* nginx rejects a configuration holding two location blocks of one path
\* ("duplicate location").
DuplicateLocation(cfg) ==
    \E i, j \in 1..Len(cfg.locations) :
        i # j /\ cfg.locations[i][1] = cfg.locations[j][1]

\* C2: when the reload command of an update_and_reload call fails (exit code
\* other than 0, timeout, or the command could not be run), the live file is
\* afterwards what it was before the call, absent if it was absent, and the
\* response has success false and a message telling of the rollback.
C2_ReloadFailureRollsBack ==
    (NoFileError /\ nres.reload \in ReloadOutcomes \ {"exit0"}) =>
        /\ live = nres.before
        /\ ~nres.success
        /\ nres.rolled_back

\* C3: when the rule store renders to a configuration that nginx -t rejects,
\* update_and_reload answers success false with a syntax error, and the live
\* file is afterwards what it was before the call.
C3_SyntaxErrorKeepsLive ==
    (NoFileError /\ nres.rendered # <<>>
                 /\ DuplicateLocation(nres.rendered[1])) =>
        /\ ~nres.success
        /\ nres.message = "syntax_error"
        /\ live = nres.before

\* C11: every update_and_reload call returns a response whose success is
\* true or false and raises nothing to its caller, whichever step fails:
\* rendering, the backup copy, the write, the reload command or the copy
\* that restores the backup; when a step fails the response says so.
C11_AlwaysReturns ==
    nres.calls > 0 =>
        /\ nres.raised = "none"
        /\ nres.success \in BOOLEAN
        /\ nres.success => (nres.reload \in ReloadOutcomes
                            /\ nres.stages[Len(nres.stages)] = "reload")

\* The reload command failed and the copy restoring the backup failed too.
C11_Witness ==
    /\ nres.calls > 0
    /\ nres.reload = "exit1"
    /\ nres.stages[Len(nres.stages)] = "restore"
    /\ nres.message = "update_failed"
    /\ ~nres.success

\* C20: an update_and_reload call in which rendering fails (the template is
\* missing, or a record of the store is no ProxyRule) answers success false,
\* leaves the live file and the backup file as they were, absent if absent,
\* and runs no reload command.
C20_RenderFailureTouchesNothing ==
    [][(nres'.calls = nres.calls + 1
        /\ (~nres'.template \/ \E i \in 1..Len(store) : ~ProxyRuleOK(store[i])))
       => /\ ~nres'.success
          /\ live' = live
          /\ slot' = slot
          /\ nres'.reload = "none"
          /\ nres'.stages = <<"render">>]_vars

\* C21: an update_and_reload call whose write of the rendered text fails
\* (permission denied, or an error after the file was opened) answers
\* success false and goes no further: the write is the last stage run, no
\* syntax check and no reload command is run, and nothing is restored.
C21_WriteFailureIsTerminal ==
    [][(nres'.calls = nres.calls + 1
        /\ nres'.write \in {"PermissionError", "IOError"})
       => /\ ~nres'.success
          /\ nres'.stages[Len(nres'.stages)] = "write"
          /\ \A i \in 1..Len(nres'.stages) :
                nres'.stages[i] \notin {"test", "reload", "restore"}
          /\ nres'.reload = "none"
          /\ ~nres'.rolled_back]_vars

\* The second call copied the live file to the backup file and was then
\* denied the write.
C21_Witness ==
    /\ nres.calls = 2
    /\ nres.write = "PermissionError"
    /\ nres.stages = <<"render", "backup", "write">>
    /\ slot = live /\ live # <<>>
    /\ ~nres.success

\* C26: an update_and_reload call runs its stages in the order render,
\* write, syntax check, reload: the reload command is run only in a call
\* that has run the syntax check of the text it wrote, after the write and
\* before the reload.
C26_ReloadOnlyAfterTest ==
    (nres.calls > 0 /\ nres.reload # "none") =>
        \E w, t, r \in 1..Len(nres.stages) :
            /\ w < t /\ t < r
            /\ nres.stages[w] = "write"
            /\ nres.stages[t] = "test"
            /\ nres.stages[r] = "reload"

\* C39: an add_rule, update_rule or delete_rule call that fails with
\* DuplicatePath or NotFound leaves the set of snapshots as it was.
C39_FailedMutationKeepsSnapshots ==
    [][(/\ res'.op \in {"add", "update", "delete"}
        /\ res'.kind \in {"DuplicatePath", "NotFound"})
       => backups' = backups]_vars

\* C35: update_and_reload returns success only when the reload command was
\* run and exited 0, with docker and without.
C35_SuccessOnlyIfReloaded ==
    (nres.calls > 0 /\ nres.success) => nres.reload = "exit0"

\* C32, as the code has it: when two update_and_reload calls in a row have
\* restored the backup, the text that was live before the first of them is
\* live again and is the content of the backup file too; the one backup
\* file does not lose it, since the second call copies to it the live file
\* the first call has restored.
C32_TwoRollbacksKeepOriginal ==
    [][(/\ nres.rolled_back
        /\ nres'.calls = nres.calls + 1
        /\ nres'.rolled_back)
       => /\ live' = nres.before
          /\ slot' = nres.before]_vars

\* C32, as stated: after two calls in a row that have restored the backup,
\* the text that was live before the first of them is neither the live file
\* nor the backup file.
C32_TwoRollbacksLoseOriginal ==
    [][(/\ nres.rolled_back
        /\ nres'.calls = nres.calls + 1
        /\ nres'.rolled_back)
       => /\ live' # nres.before
          /\ slot' # nres.before]_vars

\* Two calls in a row have restored the backup; the second had written
\* another text than the one that is live again.
C32_Witness ==
    /\ nres.rollbacks = 2
    /\ live # <<>> /\ live = slot /\ live = nres.before
    /\ nres.rendered # live

\* A second call found no template while a live file and no backup file
\* existed.
C20_Witness ==
    /\ nres.calls = 2
    /\ ~nres.template
    /\ ~nres.success
    /\ live # <<>> /\ slot = <<>>
    /\ nres.before = live

-----------------------------------------------------------------------------
(* Properties of overlapping requests.                                     *)

\* The handlers of the given routes that have started and not finished.
Underway(routes) ==
    {r \in DOMAIN requests :
        requests[r].route \in routes /\ Started(requests[r])}

\* C27: of the update_and_reload calls of overlapping POST /reload requests
\* at most one is between its first and its last statement, and a call that
\* restores the backup file finds in it the live file it has copied there
\* itself.
C27_ReconcileSerialized ==
    /\ Cardinality(Underway({"POST /reload"})) <= 1
    /\ \A r \in DOMAIN requests :
          (requests[r].route = "POST /reload" /\ requests[r].pc = "restore")
             => (slot # <<>> /\ slot = requests[r].saved)

\* A call is about to restore the backup file while the handler of another
\* POST /reload request waits for its turn.
C27_Witness ==
    \E r, q \in DOMAIN requests :
        /\ requests[r].route = "POST /reload" /\ requests[r].pc = "restore"
        /\ requests[q].route = "POST /reload" /\ requests[q].pc = "accepted"
        /\ slot = requests[r].saved /\ live # slot

\* C28: of the add_rule and delete_rule calls of overlapping requests at
\* most one is between its first and its last statement, and the rules list
\* a call writes is made from the store as it is when the call writes it:
\* what another call has written is neither lost nor unseen by the test for
\* a path already taken.
C28_MutationsSerialized ==
    [][/\ Cardinality(Underway(Mutations)) <= 1
       /\ \A r \in DOMAIN requests :
             (/\ requests[r].route \in Mutations
              /\ requests[r].pc = "write"
              /\ requests'[r] = NoRequest)
             => requests[r].rules = store]_vars

\* The handler of a POST /rules request is about to append its rule to the
\* one rule of the store while the handler of another POST /rules request
\* for the same path waits for its turn.
C28_Witness ==
    \E r, q \in DOMAIN requests :
        /\ requests[r].route = "POST /rules" /\ requests[r].pc = "write"
        /\ requests[q].route = "POST /rules" /\ requests[q].pc = "accepted"
        /\ requests[q].arg = requests[r].arg
        /\ Len(store) = 1

-----------------------------------------------------------------------------
(* Properties of the health statistics.                                    *)

\* C8: get_statistics counts every enabled rule of the store in total, the
\* rules never probed being the unknown ones: unknown is total minus healthy
\* minus unhealthy, health_rate is healthy / total * 100 (0 for no rule), and
\* 3 healthy, 2 unhealthy and 1 never probed rule give total 6, unknown 1 and
\* a health_rate of 50.
C8_StatisticsCountEnabled ==
    LET s == get_statistics
        enabled == Len(get_enabled_rules(store))
    IN /\ s.total = enabled
       /\ s.unknown = s.total - s.healthy - s.unhealthy
       /\ s.health_rate = IF s.total > 0 THEN Round2(s.healthy * 100, s.total)
                          ELSE 0
       /\ (enabled = 6 /\ s.healthy = 3 /\ s.unhealthy = 2) =>
              (s.total = 6 /\ s.unknown = 1 /\ s.health_rate = 5000)

\* C29: a check_all_rules call starts one probe for each rule that is
\* enabled in the store when the call begins and none for a disabled rule,
\* and when it ends it has written entries of probed rule ids only: every
\* other entry of health_status is as it was.
C29_OneProbePerEnabledRule ==
    [][\A c \in Callers :
          /\ (\/ inflight[c] = <<>> /\ inflight'[c] # <<>>
              \/ c = "loop" /\ \E t \in DOMAIN loops :
                                  loops'[t].cycle # loops[t].cycle) =>
                LET probes == inflight'[c][1]
                IN /\ inflight'[c] # <<>>
                   /\ \A i \in 1..Len(store) :
                         Cardinality({k \in 1..Len(probes) :
                                        /\ probes[k].rule_id = store[i].id
                                        /\ probes[k].path = store[i].path})
                            = IF store[i].enabled THEN 1 ELSE 0
                   /\ \A k \in 1..Len(probes) :
                         \E i \in 1..Len(store) :
                            probes[k].rule_id = store[i].id
                   /\ health_status' = health_status
          /\ (inflight[c] # <<>> /\ inflight'[c] = <<>>) =>
                LET probed == {inflight[c][1][k].rule_id :
                                 k \in 1..Len(inflight[c][1])}
                IN /\ DOMAIN health_status' \subseteq
                         DOMAIN health_status \cup probed
                   /\ \A id \in DOMAIN health_status \ probed :
                         /\ id \in DOMAIN health_status'
                         /\ health_status'[id] = health_status[id]]_vars

\* C24: in a check_all_rules call each probe decides the entry of its own
\* rule and of no other: whatever the probes of the cycle do, the rule of a
\* probe that returned a HealthCheckResult gets that result, also when
\* another probe failed or raised, and the entry of a rule whose probe
\* returned none, like every other entry, stays as it was.
C24_ProbeFailureIsLocal ==
    \A c \in Callers :
        inflight[c] # <<>> =>
            LET probes == inflight[c][1]
                ms == [i \in 1..Len(probes) |-> ProbeMs]
            IN \A outcomes \in [1..Len(probes) -> ProbeOutcomes] :
                  LET after == CycleResults(health_status, probes, outcomes, ms)
                      written == {probes[i].rule_id :
                                    i \in {j \in 1..Len(probes) :
                                              outcomes[j] # "cancelled"}}
                  IN /\ DOMAIN after = DOMAIN health_status \cup written
                     /\ \A i \in 1..Len(probes) :
                           outcomes[i] # "cancelled" =>
                              after[probes[i].rule_id]
                                 = check_single_rule(probes[i], outcomes[i],
                                                     ms[i])
                     /\ \A id \in DOMAIN after \ written :
                           after[id] = health_status[id]

\* In the cycle of second 1 the probe of rule 1 returned no result and that
\* of rule 2 met an unexpected exception: rule 1 has its entry of second 0.
C24_Witness ==
    /\ inflight["manual"] = <<>>
    /\ DOMAIN health_status = {<<"1">>, <<"2">>}
    /\ health_status[<<"1">>].status = "healthy"
    /\ health_status[<<"1">>].last_check_time = 0
    /\ health_status[<<"2">>].error_message = "error"
    /\ health_status[<<"2">>].last_check_time = 1

\* C25: every entry of health_status has a response_time_ms only when its
\* status is healthy and an error_message only when its status is unhealthy,
\* also when the connection was opened and closing it failed.
C25_TimeAndErrorByStatus ==
    \A id \in DOMAIN health_status :
        LET r == health_status[id]
        IN /\ r.status \in {"healthy", "unhealthy", "unknown"}
           /\ r.response_time_ms # -1 => r.status = "healthy"
           /\ r.error_message # "none" => r.status = "unhealthy"

\* One probe connected and the other opened its connection and failed to
\* close it.
C25_Witness ==
    /\ DOMAIN health_status = {<<"1">>, <<"2">>}
    /\ health_status[<<"1">>].status = "healthy"
    /\ health_status[<<"1">>].response_time_ms = ProbeMs
    /\ health_status[<<"2">>].status = "unhealthy"
    /\ health_status[<<"2">>].error_message = "failed"
    /\ health_status[<<"2">>].response_time_ms = -1

\* C33: a check of the monitor that fetched a status in which a service of
\* last_unhealthy is no longer unhealthy sends the recovery notification,
\* however short the time since last_alert_time.
C33_RecoveryNotifiedAtOnce ==
    (/\ monitor.fetched # <<>>
     /\ monitor.before.last_unhealthy
           \ monitor.fetched[1].unhealthy_services # {})
    => "recovered" \in monitor.sent

\* A service recovered at the check that came CheckInterval seconds after
\* an alert, and the recovery notification was sent.
C33_Witness ==
    /\ monitor.fetched # <<>>
    /\ monitor.before.last_unhealthy = {"/a", "/b"}
    /\ monitor.fetched[1].unhealthy_services = {"/b"}
    /\ monitor.at - monitor.before.last_alert_time = CheckInterval
    /\ "recovered" \in monitor.sent

\* C34: at a check that fetched a status with unhealthy services, every
\* payload so far having agreed with itself on overall_status, a
\* notification of unhealthy services is sent when one of them is newly
\* unhealthy; when none is, it is sent if and only if AlertInterval seconds
\* have passed since the last notification of unhealthy services.
C34_AlertEveryInterval ==
    [][(/\ monitor'.at # monitor.at
        /\ monitor'.coherent
        /\ monitor'.fetched # <<>>
        /\ monitor'.fetched[1].overall_status # "healthy"
        /\ monitor'.fetched[1].unhealthy_services # {})
       => LET current == monitor'.fetched[1].unhealthy_services
              new_unhealthy == current \ monitor.state.last_unhealthy
              elapsed == monitor'.at - monitor.alerted
          IN IF new_unhealthy # {} THEN "alert" \in monitor'.sent
             ELSE "alert" \in monitor'.sent <=> elapsed >= AlertInterval]_vars

\* C36: when a check_all_rules call ends and no other is under way,
\* health_status has no entry but for the rules that were enabled when the
\* call began: the entry of a rule deleted or disabled since an earlier
\* cycle is gone.
C36_NoStaleResult ==
    [][\A c \in Callers :
          (/\ inflight[c] # <<>>
           /\ inflight'[c] = <<>>
           /\ \A d \in Callers : inflight'[d] = <<>>)
          => DOMAIN health_status'
                \subseteq {inflight[c][1][i].rule_id :
                              i \in 1..Len(inflight[c][1])}]_vars

\* C37: the last_check_time of the health_status entry of a rule never
\* decreases, however the cycles of the loop and the check_all_rules calls
\* of POST /health/check interleave.
C37_CheckTimeNeverDecreases ==
    [][\A id \in DOMAIN health_status :
          health_status'[id].last_check_time
             >= health_status[id].last_check_time]_vars

\* C38: every entry of health_status has the status healthy or unhealthy,
\* none the status unknown its result was constructed with, and the unknown
\* count of get_statistics is 0.
C38_NoUnknownResult ==
    /\ \A id \in DOMAIN health_status :
          health_status[id].status \in {"healthy", "unhealthy"}
    /\ get_statistics.unknown = 0

\* One probe met an exception that is no OSError and the other timed out:
\* both rules are counted unhealthy.
C38_Witness ==
    /\ DOMAIN health_status = {<<"1">>, <<"2">>}
    /\ health_status[<<"1">>].error_message = "error"
    /\ health_status[<<"2">>].error_message = "timeout"
    /\ get_statistics.total = 2
    /\ get_statistics.unhealthy = 2
    /\ get_statistics.unknown = 0

-----------------------------------------------------------------------------
(* Properties of the polling loop.                                         *)

\* The task HealthChecker._task refers to.
HasTask == loops # <<>>
Task == loops[Len(loops)]

\* C12: a stop call made while a cycle of the loop is in flight does not
\* abort the cycle: the probes it awaits stay in flight and the task lives on
\* to write their results.
C12_StopKeepsCycle ==
    [][(running /\ ~running' /\ inflight["loop"] # <<>>) =>
          /\ inflight'["loop"] = inflight["loop"]
          /\ Alive(loops'[Len(loops)])]_vars

\* C13: after any start and stop calls at most one _check_loop task is
\* alive, and a task begins a cycle only from its creation or from its
\* sleep, with no cycle of the loop in flight.
C13_OneLoopNoOverlap ==
    [][/\ Cardinality({t \in DOMAIN loops' : Alive(loops'[t])}) <= 1
       /\ \A t \in DOMAIN loops :
             loops'[t].cycle # loops[t].cycle =>
                /\ loops[t].pc \in {"created", "sleeping"}
                /\ inflight["loop"] = <<>>
                /\ \A u \in DOMAIN loops : u # t => ~Alive(loops[u])]_vars

\* start has been called while running, and after a stop again: the first
\* task is cancelled and the second has begun a cycle.
C13_Witness ==
    /\ running
    /\ Len(loops) = 2
    /\ loops[1].pc = "cancelled"
    /\ loops[2].pc = "checking"
    /\ inflight["loop"] # <<>>

\* C14: while the poller is running, a cycle that raised (the store could
\* not be read) does not end the loop: the task begins a further cycle,
\* unless the poller is stopped first.
C14_LoopSurvivesException ==
    \A k \in 0..(CycleMod - 1) :
        (running /\ HasTask /\ Task.raised /\ Task.cycle = k)
            ~> (~running \/ Task.cycle # k)

\* A cycle of the running loop has raised and the task is in its sleep.
C14_Witness ==
    /\ running /\ HasTask /\ Task.raised /\ Task.pc = "sleeping"
    /\ \E i \in 1..Len(store) : ~ProxyRuleOK(store[i])

\* C15: a check_all_rules call over K rules ends within one probe timeout of
\* its beginning, however many of the backends hang: the K probes are begun
\* together, and no cycle is in flight later than the timeout after it began.
C15_CycleWithinOneTimeout ==
    \A c \in Callers :
        inflight[c] # <<>> =>
            \A i \in 1..Len(inflight[c][1]) :
                /\ inflight[c][1][i].last_check_time
                      = inflight[c][1][1].last_check_time
                /\ now - inflight[c][1][i].last_check_time <= ProbeTimeout

\* Two backends hung and both probes timed out, the timeout after the
\* cycle began.
C15_Witness ==
    /\ inflight["manual"] = <<>>
    /\ Cardinality(DOMAIN health_status) >= 2
    /\ \A id \in DOMAIN health_status :
          /\ health_status[id].error_message = "timeout"
          /\ now = health_status[id].last_check_time + ProbeTimeout

=============================================================================
